---- MODULE Spec2Model ----
(***************************************************************************)
(* A model of the KML codec of app13-1.py: parse_kml (the KML upload       *)
(* handler), create_kml_manual and the simplekml export path.              *)
(*                                                                         *)
(* Numbers.  A coordinate is an integer count of 1e-7 degree, one decimal  *)
(* digit finer than the 6 places parse_kml rounds to.  The number's text   *)
(* (Python's repr of the float) is a record of sign, whole degrees and     *)
(* fraction; float() reads it back.                                        *)
(*                                                                         *)
(* Text.  Character data is a sequence of words (what str.split() gives);  *)
(* a word is a sequence of fields (what word.split(',') gives); a field   *)
(* is either the text of a number or a run of characters float() rejects.  *)
(* A document is a sequence of lexemes: open tags (with an optional       *)
(* default-namespace declaration), close tags and character data.          *)
(***************************************************************************)
EXTENDS Integers, Sequences, FiniteSets, TLC

\* ------------------------------------------------------------------ bounds
MaxElems == 2
MaxWp == 3
NameSpan == 26
MaxPts == 3
MaxDrawings == 3
MaxAppends == 2

\* --------------------------------------------------------------- constants
Round6Digits == 6
LatLimit == 90
LonLimit == 180
LineStringMin == 1
LoopCloseMin == 2
ChrBase == 65

UnitsPerDegree == 10 ^ (Round6Digits + 1)
Deg(whole, frac) == whole * UnitsPerDegree + frac

\* ------------------------------------------------------------ number text
NumField(v) ==
    LET a == IF v < 0 THEN -v ELSE v
    IN  [kind |-> "num", neg |-> v < 0, whole |-> a \div UnitsPerDegree,
         frac |-> a % UnitsPerDegree, s |-> << >>]

StrField(chars) ==
    [kind |-> "str", neg |-> FALSE, whole |-> 0, frac |-> 0, s |-> chars]

\* float(text): the value of a number's text; ValueError for anything else
FloatOk(f) == f.kind = "num"
Float(f) == (IF f.neg THEN -1 ELSE 1) * (f.whole * UnitsPerDegree + f.frac)

\* round(x, 6) on a value given in 1e-7 degree; the result is in the same unit
Round6(v) ==
    LET step == 10 ^ (7 - Round6Digits)
        q == v \div step
        r == v % step
    IN  IF 2 * r < step THEN q * step
        ELSE IF 2 * r > step THEN (q + 1) * step
        ELSE IF q % 2 = 0 THEN q * step ELSE (q + 1) * step

InRange(lat, lon) ==
    /\ -LatLimit * UnitsPerDegree <= lat /\ lat <= LatLimit * UnitsPerDegree
    /\ -LonLimit * UnitsPerDegree <= lon /\ lon <= LonLimit * UnitsPerDegree

\* ---------------------------------------------------------------- lexemes
KML22 == "http://www.opengis.net/kml/2.2"
KML20 == "http://earth.google.com/kml/2.0"
KML21 == "http://earth.google.com/kml/2.1"
NoNs == ""
Inherit == "(no xmlns attribute)"

Open(tag, xmlns) == [k |-> "open", tag |-> tag, xmlns |-> xmlns, text |-> << >>]
Close(tag) == [k |-> "close", tag |-> tag, xmlns |-> Inherit, text |-> << >>]
Text(words) == [k |-> "text", tag |-> "", xmlns |-> Inherit, text |-> words]

Word(chars) == << StrField(chars) >>
AMP == "&"
LT == "<"
BADBYTE == "\\xff"

\* concatenation of a sequence of sequences (halving keeps the recursion shallow)
RECURSIVE FlattenRange(_, _, _)
FlattenRange(ss, lo, hi) ==
    IF lo > hi THEN << >>
    ELSE IF lo = hi THEN ss[lo]
    ELSE LET mid == (lo + hi) \div 2
         IN  FlattenRange(ss, lo, mid) \o FlattenRange(ss, mid + 1, hi)

Flatten(ss) == FlattenRange(ss, 1, Len(ss))

\* every character of a document's character data
TextChars(doc) ==
    UNION { UNION { UNION { {doc[i].text[w][f].s[c] : c \in DOMAIN doc[i].text[w][f].s}
                            : f \in DOMAIN doc[i].text[w] }
                    : w \in DOMAIN doc[i].text }
            : i \in DOMAIN doc }

\* --------------------------------------------------- create_kml_manual
CodeChart ==
    << "A", "B", "C", "D", "E", "F", "G", "H", "I", "J", "K", "L", "M",
       "N", "O", "P", "Q", "R", "S", "T", "U", "V", "W", "X", "Y", "Z",
       "[", "bslash", "]", "caret", "_", "bquote", "a", "b", "c", "d" >>
Chr(code) == CodeChart[code - ChrBase + 1]

CoordTriple_LatFirst(wp) == << NumField(wp.lat), NumField(wp.lon), NumField(0) >>

\* "{wp['lon']},{wp['lat']},0"
CoordTriple(wp) == << NumField(wp.lon), NumField(wp.lat), NumField(0) >>

PointPlacemark(i, wp) ==
    << Open("Placemark", Inherit),
       Open("name", Inherit), Text(<< Word(<< "W", "P", Chr(ChrBase + i) >>) >>),
       Close("name"),
       Open("description", Inherit),
       Text(<< Word(<< "Waypoint" >>), Word(<< Chr(ChrBase + i) >>) >>),
       Close("description"),
       Open("Point", Inherit),
       Open("coordinates", Inherit), Text(<< CoordTriple(wp) >>),
       Close("coordinates"),
       Close("Point"),
       Close("Placemark") >>

FlightPathCoords_NeverClosed(wps) == [i \in 1..Len(wps) |-> CoordTriple(wps[i])]

FlightPathCoords(wps) ==
    [i \in 1..Len(wps) |-> CoordTriple(wps[i])]
    \o (IF Len(wps) > LoopCloseMin THEN << CoordTriple(wps[1]) >> ELSE << >>)

FlightPathPlacemark(wps) ==
    << Open("Placemark", Inherit),
       Open("name", Inherit), Text(<< Word(<< "Flight" >>), Word(<< "Path" >>) >>),
       Close("name"),
       Open("LineString", Inherit),
       Open("coordinates", Inherit), Text(FlightPathCoords(wps)),
       Close("coordinates"),
       Close("LineString"),
       Open("Style", Inherit), Open("LineStyle", Inherit),
       Open("color", Inherit), Text(<< Word(<< "ff00ff00" >>) >>), Close("color"),
       Open("width", Inherit), Text(<< << NumField(3 * UnitsPerDegree) >> >>),
       Close("width"),
       Close("LineStyle"), Close("Style"),
       Close("Placemark") >>

create_kml_manual(wps, label) ==
    << Open("kml", KML22), Open("Document", Inherit),
       Open("name", Inherit),
       Text(<< Word(<< "Flight" >>), Word(<< "Plan" >>), Word(label) >>),
       Close("name"),
       Open("description", Inherit),
       Text(<< Word(<< "Drone" >>), Word(<< "Survey" >>), Word(<< "Waypoints" >>) >>),
       Close("description") >>
    \o Flatten([i \in 1..Len(wps) |-> PointPlacemark(i - 1, wps[i])])
    \o (IF Len(wps) > LineStringMin THEN FlightPathPlacemark(wps) ELSE << >>)
    \o << Close("Document"), Close("kml") >>

\* ------------------------------------------- ET.fromstring (strict parse)
\* The tree is the sequence of its elements in document order; parent is an
\* index into that sequence (0 for the root), text is Element.text.
LexChars(lx) ==
    UNION { UNION { {lx.text[w][f].s[c] : c \in DOMAIN lx.text[w][f].s}
                    : f \in DOMAIN lx.text[w] }
            : w \in DOMAIN lx.text }

ParseStart ==
    [ok |-> TRUE, closed |-> FALSE, stack |-> << >>, nss |-> << >>, elems |-> << >>]

ParseLexeme(st, lx) ==
    LET depth == Len(st.stack)
        top == st.stack[depth]
        bad == [st EXCEPT !.ok = FALSE]
    IN  IF ~st.ok THEN st
        ELSE IF lx.k = "open" THEN
            IF st.closed THEN bad   \* junk after document element
            ELSE LET ns == IF lx.xmlns # Inherit THEN lx.xmlns
                           ELSE IF depth = 0 THEN NoNs ELSE st.nss[depth]
                     el == [tag |-> lx.tag, ns |-> ns,
                            parent |-> IF depth = 0 THEN 0 ELSE top,
                            text |-> << >>, hasText |-> FALSE, kids |-> 0]
                     grown == IF depth = 0 THEN st.elems
                              ELSE [st.elems EXCEPT ![top].kids = @ + 1]
                 IN  [st EXCEPT !.elems = Append(grown, el),
                                !.stack = Append(@, Len(st.elems) + 1),
                                !.nss = Append(@, ns)]
        ELSE IF lx.k = "close" THEN
            IF depth = 0 \/ st.elems[top].tag # lx.tag THEN bad   \* mismatched tag
            ELSE [st EXCEPT !.stack = SubSeq(@, 1, depth - 1),
                            !.nss = SubSeq(@, 1, depth - 1),
                            !.closed = (depth = 1)]
        ELSE IF LexChars(lx) \cap {AMP, LT} # {} THEN bad   \* not well-formed
        ELSE IF depth = 0 THEN (IF lx.text = << >> THEN st ELSE bad)
        ELSE IF st.elems[top].kids = 0 /\ ~st.elems[top].hasText
             THEN [st EXCEPT !.elems[top].text = lx.text, !.elems[top].hasText = TRUE]
        ELSE st   \* tail text

\* the lexemes lo..hi in order, starting from parser state st
RECURSIVE ParseRange(_, _, _, _)
ParseRange(doc, lo, hi, st) ==
    IF lo > hi THEN st
    ELSE IF lo = hi THEN ParseLexeme(st, doc[lo])
    ELSE LET mid == (lo + hi) \div 2
             left == ParseRange(doc, lo, mid, st)
         IN  IF ~left.ok THEN left ELSE ParseRange(doc, mid + 1, hi, left)

\* [ok |-> FALSE] stands for ET.ParseError
fromstring(content) ==
    LET st == ParseRange(content, 1, Len(content), ParseStart)
    IN  IF st.ok /\ st.closed THEN [ok |-> TRUE, elems |-> st.elems]
        ELSE [ok |-> FALSE, elems |-> << >>]

\* ------------------------------------------------------ Element.findall
RECURSIVE IsAncestor(_, _, _)
IsAncestor(elems, a, c) ==
    LET p == elems[c].parent
    IN  IF p = 0 THEN FALSE ELSE IF p = a THEN TRUE ELSE IsAncestor(elems, a, p)

Indices(n) == [i \in 1..n |-> i]

\* root.findall('.//{ns}tag'): the root's descendants, in document order
FindAll(elems, ns, tag) ==
    SelectSeq(Indices(Len(elems)),
              LAMBDA i : i > 1 /\ elems[i].ns = ns /\ elems[i].tag = tag)

\* root.findall('.//{ns}outer//{ns}tag'): one hit per enclosing outer element
FindUnder(elems, ns, outer, tag) ==
    LET outers == FindAll(elems, ns, outer)
    IN  Flatten([k \in 1..Len(outers) |->
                   SelectSeq(Indices(Len(elems)),
                             LAMBDA i : /\ elems[i].ns = ns /\ elems[i].tag = tag
                                        /\ IsAncestor(elems, outers[k], i))])

\* --------------------------------------------------------------- parse_kml
namespaces == << {KML22}, {KML20}, {KML21}, {} >>

\* the namespace the three findall paths of a candidate name
PathNs(ns) == IF ns # {} THEN KML22 ELSE NoNs

coord_elements(elems, ns) ==
    FindAll(elems, PathNs(ns), "coordinates")
    \o FindUnder(elems, PathNs(ns), "Point", "coordinates")
    \o FindUnder(elems, PathNs(ns), "LinearRing", "coordinates")

\* one token of a coordinates text: "point", "warning" or "skip"
TokenClass(parts) ==
    IF Len(parts) < 2 THEN "skip"
    ELSE IF ~FloatOk(parts[1]) \/ ~FloatOk(parts[2]) THEN "skip"
    ELSE IF InRange(Float(parts[2]), Float(parts[1])) THEN "point"
    ELSE "warning"

TokenPoint(parts) == << Float(parts[2]), Float(parts[1]) >>

\* stops at the first out-of-range token of the text
ElemPoints_StopAtInvalid(words) ==
    LET bad == {w \in DOMAIN words : TokenClass(words[w]) = "warning"}
        upto == IF bad = {} THEN Len(words)
                ELSE (CHOOSE w \in bad : \A v \in bad : w <= v) - 1
        keep == SelectSeq(SubSeq(words, 1, upto), LAMBDA w : TokenClass(w) = "point")
    IN  [i \in 1..Len(keep) |-> TokenPoint(keep[i])]

ElemPoints(words) ==
    LET keep == SelectSeq(words, LAMBDA w : TokenClass(w) = "point")
    IN  [i \in 1..Len(keep) |-> TokenPoint(keep[i])]

ElemWarnings(words) ==
    Len(SelectSeq(words, LAMBDA w : TokenClass(w) = "warning"))

RECURSIVE SumRange(_, _, _)
SumRange(s, lo, hi) ==
    IF lo > hi THEN 0
    ELSE IF lo = hi THEN s[lo]
    ELSE LET mid == (lo + hi) \div 2
         IN  SumRange(s, lo, mid) + SumRange(s, mid + 1, hi)

SumSeq(s) == SumRange(s, 1, Len(s))

\* what one pass of the `for ns in namespaces` body appends and warns
ProbePoints(elems, ns) ==
    LET ce == coord_elements(elems, ns)
    IN  Flatten([k \in 1..Len(ce) |-> ElemPoints(elems[ce[k]].text)])

ProbeWarnings(elems, ns) ==
    LET ce == coord_elements(elems, ns)
    IN  SumSeq([k \in 1..Len(ce) |-> ElemWarnings(elems[ce[k]].text)])

coord_tuple_Exact(coord) == coord

coord_tuple(coord) == << Round6(coord[1]), Round6(coord[2]) >>

\* bytes.decode('utf-8'): UnicodeDecodeError on an invalid byte
\* file.read() of line 168: the bytes from the read position on
read(bytes, at) == IF at = "start" THEN bytes ELSE << >>

DecodeOk(bytes) == BADBYTE \notin TextChars(bytes)

\* the keyword arguments xml.etree.ElementTree.XMLParser accepts
XMLParserKeywords == {"target", "encoding"}

Catches_ParseErrorOnly(e) == e \in {"ParseError"}

\* the exceptions `except Exception` of parse_kml catches
Catches(e) == e \in {"UnicodeDecodeError", "ParseError", "TypeError"}

\* ------------------------------------------------- simplekml export path
\* What the export handler hands to simplekml: one newpoint per waypoint and
\* at most one newlinestring; coords are (lon, lat) pairs.
LibPoints(wps) ==
    [i \in 1..Len(wps) |->
        [name |-> << "W", "P", Chr(65 + (i - 1)) >>,
         coords |-> << << wps[i].lon, wps[i].lat >> >>]]

LibLineCoords_ClosedFromTwo(wps) ==
    LET coords == [i \in 1..Len(wps) |-> << wps[i].lon, wps[i].lat >>]
    IN  IF Len(wps) > 1 THEN Append(coords, coords[1]) ELSE coords

LibLineCoords(wps) ==
    LET coords == [i \in 1..Len(wps) |-> << wps[i].lon, wps[i].lat >>]
    IN  IF Len(wps) > 2 THEN Append(coords, coords[1]) ELSE coords

LibHasLine(wps) == Len(wps) > 1

\* ------------------------------------------------------------------ inputs
Wp(lat, lon) == [lat |-> lat, lon |-> lon]
WpA == Wp(Deg(24, 6000000), Deg(72, 5000000))
WpA3 == Wp(Deg(24, 5999996), Deg(72, 5000000))
WpB == Wp(Deg(24, 6010000), Deg(72, 5010000))
WpC == Wp(-Deg(33, 8650000), Deg(151, 2000000))
WpSamples == {WpA, WpA3, WpB, WpC}

LongList(n) == [i \in 1..n |-> Wp(Deg(24, 6000000) + 1000 * i, Deg(72, 5000000))]

WaypointLists ==
    UNION {[1..n -> WpSamples] : n \in 0..MaxWp} \cup {LongList(NameSpan)}

DateLabel == << "2026-11-05" >>
AmpLabel == << "R", AMP, "D" >>
Labels == {DateLabel, AmpLabel}

Tok(lat, lon) == << NumField(lon), NumField(lat), NumField(0) >>
TokA == Tok(Deg(24, 6000000), Deg(72, 5000000))
TokA1 == Tok(Deg(24, 6000001), Deg(72, 5000000))
TokA3 == << NumField(Deg(72, 5000000)), NumField(Deg(24, 5999996)) >>
TokB == Tok(Deg(24, 6010000), Deg(72, 5010000))
TokC == Tok(-Deg(33, 8650000), Deg(151, 2000000))
TokBadLat == Tok(Deg(95, 0), Deg(72, 5000000))
TokBadLon == Tok(Deg(24, 6000000), Deg(200, 0))
TokNaN == << StrField(<< "abc" >>), NumField(Deg(3, 0)) >>
TokOne == << NumField(Deg(5, 0)) >>

El(xmlns, wrap, words) == [xmlns |-> xmlns, wrap |-> wrap, words |-> words]
ElemSamples ==
    { El(Inherit, "Point", << TokA >>),
      El(Inherit, "", << TokA, TokA1, TokB, TokA3 >>),
      El(Inherit, "LinearRing", << TokBadLat, TokB >>),
      El(NoNs, "", << TokC >>),
      El(KML22, "Point", << TokBadLon >>),
      El(KML20, "", << TokB, TokA >>),
      El(KML21, "Point", << TokNaN, TokOne, TokC >>),
      El(Inherit, "Point", << >>) }

ElemLexemes(e) ==
    LET body == IF e.words = << >> THEN << >> ELSE << Text(e.words) >>
    IN  IF e.wrap = ""
        THEN << Open("coordinates", e.xmlns) >> \o body \o << Close("coordinates") >>
        ELSE << Open(e.wrap, e.xmlns), Open("coordinates", Inherit) >> \o body
             \o << Close("coordinates"), Close(e.wrap) >>

Defects == {"none", "amp", "truncated", "badbyte"}

MkDoc(rootNs, es, defect) ==
    LET descr == IF defect = "amp" THEN << Word(<< "a" >>), Word(<< AMP >>), Word(<< "b" >>) >>
                 ELSE IF defect = "badbyte" THEN << Word(<< "caf", BADBYTE >>) >>
                 ELSE << Word(<< "survey" >>) >>
        full == << Open("kml", rootNs), Open("Document", Inherit),
                   Open("description", Inherit), Text(descr), Close("description") >>
                \o Flatten([i \in 1..Len(es) |-> ElemLexemes(es[i])])
                \o << Close("Document"), Close("kml") >>
    IN  IF defect = "truncated" THEN SubSeq(full, 1, Len(full) - 1) ELSE full

ElemLists(n) == UNION {[1..k -> ElemSamples] : k \in 0..n}
RootDecls == {Inherit, KML22, KML20, KML21}

Docs ==
    {MkDoc(r, es, "none") : r \in RootDecls, es \in ElemLists(MaxElems)}
    \cup {MkDoc(r, es, d) : r \in {Inherit, KML22}, es \in ElemLists(1),
                            d \in Defects \ {"none"}}

NoFile == << >>

\* ------------------------------------------- decimal_to_dms_formatted
\* A decimal degree is a sign, whole degrees and a fraction counted in
\* 1e-5 arc-second; seconds are counted in the same unit.
SecUnit == 10 ^ 5
MinUnit == 60 * SecUnit
DegUnit == 60 * MinUnit
CarryAt == 5999995

Dec(neg, d, m, s) == [neg |-> neg, deg |-> d, frac |-> m * MinUnit + s]
IsZero(x) == x.deg = 0 /\ x.frac = 0

\* `decimal >= 0`: true of 0.0 and of -0.0
Direction(decimal, is_lat) ==
    IF is_lat THEN (IF ~decimal.neg \/ IsZero(decimal) THEN "N" ELSE "S")
    ELSE (IF ~decimal.neg \/ IsZero(decimal) THEN "E" ELSE "W")

\* deg, min_val, sec of lines 37-40.  The float product (abs_val - deg) * 60
\* of a value on a whole minute can fall just below it (151.2 gives
\* 11.999999999999...), leaving sec just below 60.
Decompositions(decimal) ==
    LET m == decimal.frac \div MinUnit
        s == decimal.frac % MinUnit
        exact == [deg |-> decimal.deg, min_val |-> m, sec |-> s]
    IN  IF s = 0 /\ m > 0
        THEN {exact, [deg |-> decimal.deg, min_val |-> m - 1, sec |-> MinUnit - 1]}
        ELSE {exact}

Carry_KeepsSixty(d) ==
    IF d.sec >= CarryAt THEN [d EXCEPT !.sec = 0, !.min_val = @ + 1] ELSE d

\* lines 43-48
Carry(d) ==
    IF d.sec >= CarryAt
    THEN IF d.min_val + 1 >= 60
         THEN [deg |-> d.deg + 1, min_val |-> 0, sec |-> 0]
         ELSE [d EXCEPT !.sec = 0, !.min_val = @ + 1]
    ELSE d

RECURSIVE Digits(_)
Digits(n) == IF n < 10 THEN << n >> ELSE Append(Digits(n \div 10), n % 10)

Format02d_Unpadded(n) == Digits(n)

\* f"{n:02d}"
Format02d(n) == IF n < 10 THEN << 0, n >> ELSE Digits(n)

\* n as exactly w digits
RECURSIVE Fixed(_, _)
Fixed(n, w) == IF w = 0 THEN << >> ELSE Append(Fixed(n \div 10, w - 1), n % 10)

\* f"{x:.4f}" of a sec_frac in [0, 1): the characters of "0.dddd" or "1.0000"
Format4f(frac5) ==
    LET q == frac5 \div 10
        r == frac5 % 10
        n == IF r < 5 THEN q ELSE IF r > 5 THEN q + 1
             ELSE IF q % 2 = 0 THEN q ELSE q + 1
    IN  << n \div 10000, "." >> \o Fixed(n % 10000, 4)

\* lines 51-66: the four fields and the direction letter of the string
FormatDms(d, direction) ==
    LET sec_int == d.sec \div SecUnit
        sec_frac == d.sec % SecUnit
        text == Format4f(sec_frac)
        sec_frac_formatted == SubSeq(text, 3, Len(text))
    IN  [deg_str |-> Format02d(d.deg), min_str |-> Format02d(d.min_val),
         sec_int |-> Format02d(sec_int), sec_frac |-> sec_frac_formatted,
         direction |-> direction]

DmsSamples ==
    { Dec(FALSE, 0, 0, 0), Dec(TRUE, 0, 0, 0), Dec(TRUE, 33, 51, 5400000),
      Dec(FALSE, 24, 38, 2400000), Dec(FALSE, 24, 38, 1234567),
      Dec(FALSE, 24, 38, 1299996), Dec(FALSE, 24, 38, 1299994),
      Dec(FALSE, 24, 38, 5999996), Dec(FALSE, 24, 59, 5999996),
      Dec(FALSE, 24, 38, 5999994), Dec(TRUE, 9, 59, 5999997),
      Dec(FALSE, 89, 59, 5999997), Dec(FALSE, 90, 0, 0), Dec(TRUE, 72, 30, 0),
      Dec(FALSE, 99, 59, 5999997), Dec(FALSE, 100, 0, 0),
      Dec(FALSE, 151, 12, 0), Dec(TRUE, 179, 59, 5999994), Dec(FALSE, 180, 0, 0) }

\* in range as a latitude (is_lat) or as a longitude
DmsInRange(x, is_lat) ==
    LET limit == IF is_lat THEN LatLimit ELSE LonLimit
    IN  x.deg < limit \/ (x.deg = limit /\ x.frac = 0)

DmsCalls ==
    {[decimal |-> x, is_lat |-> b] : x \in DmsSamples, b \in BOOLEAN}

\* ------------------------------------------------- calculate_distance
\* A coordinate is the list [lat, lon].
Pt(lat, lon) == << lat, lon >>
GeoA == Pt(Deg(24, 6000000), Deg(72, 5000000))
GeoB == Pt(Deg(24, 6010000), Deg(72, 5010000))
GeoC == Pt(Deg(24, 6020000), Deg(72, 5000000))
GeoD == Pt(-Deg(33, 8650000), Deg(151, 2000000))
GeoE == Pt(Deg(2, 5000000), -Deg(170, 0))
GeoF == Pt(-Deg(2, 5000000), Deg(10, 0))
GeoBadLat == Pt(Deg(95, 0), Deg(72, 5000000))
GeoBadLon == Pt(Deg(24, 6000000), Deg(200, 0))
GeoSamples == << GeoA, GeoB, GeoC, GeoD, GeoE, GeoF, GeoBadLat, GeoBadLon >>
GeoPoints == {GeoSamples[k] : k \in DOMAIN GeoSamples}
GeoIndex(p) == CHOOSE k \in DOMAIN GeoSamples : GeoSamples[k] = p

\* The in-range sample pairs whose float a of line 82 exceeds 1, so that
\* math.sqrt(1 - a) raises ValueError: the antipodal E, F have
\* a = 1.0000000000000002.
SqrtDomainError == {<< GeoE, GeoF >>, << GeoF, GeoE >>}

\* R * c of lines 77-84 for the in-range samples, in decimetres as the float
\* arithmetic gives it
HaversineDm ==
    << << 0, 1503, 2224, 105435352, 126382246, 73768622 >>,
       << 1503, 0, 1503, 105435166, 126380987, 73769881 >>,
       << 2224, 1503, 0, 105436634, 126381684, 73769184 >>,
       << 105435352, 105435166, 105436634, 0, 57290737, 142860131 >>,
       << 126382246, 126380987, 126381684, 57290737, 0, 0 >>,
       << 73768622, 73769881, 73769184, 142860131, 0, 0 >> >>

\* lines 69-88: the value returned and the error reported, if any
calculate_distance(p1, p2) ==
    IF ~(InRange(p1[1], p1[2]) /\ InRange(p2[1], p2[2]))
    THEN [value |-> 0, error |-> "Invalid coordinate values"]
    ELSE IF << p1, p2 >> \in SqrtDomainError
         THEN [value |-> 0, error |-> "math domain error"]
         ELSE [value |-> HaversineDm[GeoIndex(p1)][GeoIndex(p2)],
               error |-> "none"]

\* -------------------------------------------- calculate_polyline_length
PolylineSegments_Closed(coordinates) ==
    [i \in 1..Len(coordinates) |-> << i, (i % Len(coordinates)) + 1 >>]

\* line 93: for i in range(len(coordinates) - 1), with coordinates[i + 1]
PolylineSegments(coordinates) ==
    [i \in 1..(Len(coordinates) - 1) |-> << i, i + 1 >>]

Polylines == UNION {[1..n -> GeoPoints] : n \in 0..MaxPts}

\* ---------------------------------- calculate_polygon_area_approximate
GeoW == Pt(Deg(24, 6010000), Deg(72, 4990000))
AreaSamples == << GeoA, GeoB, GeoC, GeoW >>
AreaPoints == {AreaSamples[k] : k \in DOMAIN AreaSamples}
AreaIndex(p) == CHOOSE k \in DOMAIN AreaSamples : AreaSamples[k] = p

\* (lon2_rad - lon1_rad) * (2 + sin(lat1_rad) + sin(lat2_rad)) of line 150
\* for the samples, times the R * R / 2.0 / 10000 of lines 153-155, in
\* 1e-3 hectare
EdgeTermTable ==
    << << 0, 100333134, 0, -100333134 >>,
       << -100333134, 0, -100334258, -200667391 >>,
       << 0, 100334258, 0, -100334258 >>,
       << 100333134, 200667391, 100334258, 0 >> >>
EdgeTerm(p1, p2) == EdgeTermTable[AreaIndex(p1)][AreaIndex(p2)]

\* lines 143-144: lat1, lon1 = coordinates[i]
LatLon(coord) == [lat |-> coord[1], lon |-> coord[2]]

RingEdges_Open(coordinates) ==
    [i \in 1..(Len(coordinates) - 1) |-> << i, i + 1 >>]

\* lines 141-142: for i in range(n) with j = (i + 1) % n
RingEdges(coordinates) ==
    [i \in 1..Len(coordinates) |-> << i, (i % Len(coordinates)) + 1 >>]

Polygons == UNION {[1..n -> AreaPoints] : n \in 0..(MaxPts + 1)}

\* ---------------------------------------------- calculate_polygon_area
\* what Polygon(...), pyproj.CRS(...), from_crs(...) or transform(...) of
\* lines 104-117 can raise
PrimaryFailures == {"ValueError", "CRSError"}

\* x and y of EPSG:3857 for the components of the samples, in decimetres
\* east and north of the projection of 24.6 (components of the first
\* place) and of 72.499 (components of the second place)
MercatorX(lon) ==
    CASE lon = Deg(24, 6000000) -> 0 [] lon = Deg(24, 6010000) -> 1113
      [] lon = Deg(24, 6020000) -> 2226
      [] lon = Deg(72, 4990000) -> 0 [] lon = Deg(72, 5000000) -> 1113
      [] lon = Deg(72, 5010000) -> 2226
MercatorY(lat) ==
    CASE lat = Deg(24, 6000000) -> 0 [] lat = Deg(24, 6010000) -> 1224
      [] lat = Deg(24, 6020000) -> 2449
      [] lat = Deg(72, 4990000) -> 0 [] lat = Deg(72, 5000000) -> 3702
      [] lat = Deg(72, 5010000) -> 7404

\* line 104, Polygon(coordinates): each coordinate is read as (x, y)
PolygonXY(coord) == [x |-> coord[1], y |-> coord[2]]

\* line 113, always_xy=True: the transformer takes x as the longitude and
\* y as the latitude
TransformXY(xy) == [lon |-> xy.x, lat |-> xy.y]

\* lines 116-117: the ring in the projected plane and its shoelace sum
Projected(coordinates) ==
    [k \in DOMAIN coordinates |->
        LET g == TransformXY(PolygonXY(coordinates[k]))
        IN  << MercatorX(g.lon), MercatorY(g.lat) >>]

RECURSIVE Shoelace(_, _)
Shoelace(ring, k) ==
    IF k < 1 THEN 0
    ELSE LET a == ring[k]
             b == ring[(k % Len(ring)) + 1]
         IN  Shoelace(ring, k - 1) + a[1] * b[2] - b[1] * a[2]

\* lines 117-121: projected_polygon.area / 10000, in 1e-3 hectare
ProjectedArea(coordinates) ==
    LET sum == Shoelace(Projected(coordinates), Len(coordinates))
    IN  (IF sum < 0 THEN -sum ELSE sum) \div 2000

AreaCatches_ValueErrorOnly(e) == e = "ValueError"

\* line 125: except Exception
AreaCatches(e) == TRUE

\* ------------------------------------------------ validate_coordinates
ValidPair_LatOnly(lat, lon) ==
    -LatLimit * UnitsPerDegree <= lat /\ lat <= LatLimit * UnitsPerDegree

\* line 240
ValidPair(lat, lon) ==
    /\ -LatLimit * UnitsPerDegree <= lat /\ lat <= LatLimit * UnitsPerDegree
    /\ -LonLimit * UnitsPerDegree <= lon /\ lon <= LonLimit * UnitsPerDegree

\* a coordinate of three components, as a KML tuple with altitude
GeoTriple == << Deg(24, 6000000), Deg(72, 5000000), 0 >>
ValidateEntries == {GeoA, GeoD, GeoBadLat, GeoBadLon, GeoTriple}
ValidateLists == UNION {[1..n -> ValidateEntries] : n \in 0..MaxPts}

\* ------------------------------------------------ ensure_lat_lon_order
ensure_lat_lon_order_LonLatFirst(coord) ==
    IF Len(coord) = 2
    THEN IF ValidPair(coord[2], coord[1]) THEN << coord[2], coord[1] >>
         ELSE coord
    ELSE coord

\* lines 300-307
ensure_lat_lon_order(coord) ==
    IF Len(coord) = 2
    THEN IF ValidPair(coord[1], coord[2]) THEN coord
         ELSE IF ValidPair(coord[2], coord[1]) THEN << coord[2], coord[1] >>
         ELSE coord
    ELSE coord

AxisValues == {Deg(10, 0), -Deg(33, 8000000), Deg(100, 0), Deg(151, 2000000),
               -Deg(179, 0), Deg(200, 0)}
AxisCoords == (AxisValues \X AxisValues) \cup {GeoTriple}

\* ------------------------------------------------------ drawings
\* A drawing is a GeoJSON feature: its geometry type and its coordinates,
\* [lon, lat] for a Point and a list of [lon, lat] for a LineString.
PointDrawing(p) == [type |-> "Point", coordinates |-> << p[2], p[1] >>]
LineDrawing(ps) ==
    [type |-> "LineString",
     coordinates |-> [k \in DOMAIN ps |-> << ps[k][2], ps[k][1] >>]]

GeoNearA == Pt(Deg(24, 6000500), Deg(72, 5000000))
MarkerSamples == {GeoA, GeoNearA, GeoB}
LineSample == LineDrawing(<< GeoC, GeoW >>)

NoPolyline == << >>

\* line 1068
marker_id(lat, lon) == << Round6(lat), Round6(lon) >>

\* line 1072: a waypoint within 0.0001 degree of the marker in both axes
NearDegrees == UnitsPerDegree \div 10000
exists(wps, lat, lon) ==
    \E i \in DOMAIN wps :
        /\ wps[i].lat - lat < NearDegrees /\ lat - wps[i].lat < NearDegrees
        /\ wps[i].lon - lon < NearDegrees /\ lon - wps[i].lon < NearDegrees

\* generate_waypoints_from_polyline_vertices, lines 156-164
generate_waypoints_from_polyline_vertices(coordinates) ==
    [k \in DOMAIN coordinates |-> Wp(coordinates[k][1], coordinates[k][2])]

\* list.pop(i)
Pop(seq, i) == SubSeq(seq, 1, i - 1) \o SubSeq(seq, i + 1, Len(seq))

\* ------------------------------------------------------------------- state
VARIABLES
    SIMPLEKML_AVAILABLE,  \* whether `import simplekml` succeeded
    waypoints,            \* st.session_state.waypoints
    date,                 \* the label handed to the serializer
    picked,               \* the KML file the operator has to upload
    kml_data,             \* what the export handler produced
    file,                 \* the buffer handed to parse_kml
    position,             \* the read position of that buffer
    call,                 \* which call of parse_kml on the buffer this is
    first,                \* what the first call returned
    processed_markers,    \* st.session_state.processed_markers
    active_polyline,      \* st.session_state.active_polyline
    all_drawings,         \* the drawings the map widget reports
    appended,             \* history: times each drawn marker was appended
    removed,              \* history: drawn markers whose waypoint was removed
    pc,                   \* position in the upload handler / parse_kml
    content, root, nsi, coords, seen, unique_coords, di, exc,
    kml_coords,           \* st.session_state.kml_coords
    errors, warnings,     \* st.error / st.warning calls
    op, args,             \* the core function called and its arguments
    opc,                  \* position in that function
    loc,                  \* its local variables
    ret                   \* its return value

core == << op, args, opc, loc, ret >>

vars == << SIMPLEKML_AVAILABLE, waypoints, date, picked, kml_data, file, pc,
           content, root, nsi, coords, seen, unique_coords, di, exc,
           kml_coords, errors, warnings, core, position, call, first,
           processed_markers, active_polyline, all_drawings, appended,
           removed >>

session == << processed_markers, active_polyline, all_drawings, appended,
             removed >>

inputs == << SIMPLEKML_AVAILABLE, waypoints, date, picked, core, call, first,
            session >>
locals == << content, root, nsi, coords, seen, unique_coords, di, exc >>
outputs == << kml_coords, errors, warnings >>

NoExport == [by |-> "none", text |-> << >>, points |-> << >>,
             hasLine |-> FALSE, line |-> << >>]

\* nothing drawn on the map yet, lines 316-323
SessionIdle ==
    /\ processed_markers = {} /\ active_polyline = NoPolyline
    /\ all_drawings = << >> /\ appended = [p \in MarkerSamples |-> 0]
    /\ removed = {}

\* no core function is being called
CoreIdle ==
    /\ op = "none" /\ args = << >> /\ opc = "idle" /\ loc = << >> /\ ret = << >>

Init ==
    /\ CoreIdle
    /\ SessionIdle
    /\ SIMPLEKML_AVAILABLE \in BOOLEAN
    /\ \/ waypoints = << >> /\ date = DateLabel /\ picked \in Docs
       \/ waypoints \in WaypointLists /\ date \in Labels /\ picked = NoFile
    /\ kml_data = NoExport
    /\ file = NoFile /\ position = "start" /\ call = 1 /\ first = << >>
    /\ pc = "idle"
    /\ content = << >> /\ root = << >> /\ nsi = 1 /\ coords = << >>
    /\ seen = {} /\ unique_coords = << >> /\ di = 1 /\ exc = "none"
    /\ kml_coords = << >> /\ errors = 0 /\ warnings = 0

\* -------------------------------------------------------- export handlers
ExportKML ==
    /\ pc = "idle" /\ SIMPLEKML_AVAILABLE
    /\ kml_data' = [by |-> "simplekml", text |-> << >>,
                    points |-> LibPoints(waypoints),
                    hasLine |-> LibHasLine(waypoints),
                    line |-> IF LibHasLine(waypoints) THEN LibLineCoords(waypoints)
                             ELSE << >>]
    /\ UNCHANGED << inputs, file, position, pc, locals, outputs >>

ExportKMLBasic ==
    /\ pc = "idle" /\ ~SIMPLEKML_AVAILABLE
    /\ kml_data' = [NoExport EXCEPT !.by = "manual",
                                    !.text = create_kml_manual(waypoints, date)]
    /\ UNCHANGED << inputs, file, position, pc, locals, outputs >>

\* ---------------------------------------------------------- upload handler
UploadPicked ==
    /\ pc = "idle" /\ picked # NoFile
    /\ file' = picked /\ position' = "start"
    /\ pc' = "read"
    /\ UNCHANGED << inputs, kml_data, locals, outputs >>

\* the operator uploads the file the basic export just produced
UploadExported ==
    /\ pc = "idle" /\ kml_data.by = "manual"
    /\ file' = kml_data.text /\ position' = "start"
    /\ pc' = "read"
    /\ UNCHANGED << inputs, kml_data, locals, outputs >>

\* content = file.read().decode('utf-8'): read() returns the bytes from the
\* read position to the end and leaves the position at the end
ReadDecode ==
    /\ pc = "read"
    /\ LET bytes == read(file, position)
       IN  IF DecodeOk(bytes)
           THEN content' = bytes /\ pc' = "strict" /\ exc' = exc
           ELSE /\ content' = content /\ pc' = "raise"
                /\ exc' = "UnicodeDecodeError"
    /\ position' = "end"
    /\ UNCHANGED << inputs, kml_data, file, root, nsi, coords, seen,
                    unique_coords, di, outputs >>

\* root = ET.fromstring(content), or on to the except ET.ParseError branch
StrictParse ==
    /\ pc = "strict"
    /\ LET r == fromstring(content)
       IN  IF r.ok THEN root' = r.elems /\ pc' = "probe"
           ELSE root' = root /\ pc' = "recover"
    /\ UNCHANGED << inputs, kml_data, file, position, content, nsi, coords,
                    seen,
                    unique_coords, di, exc, outputs >>

\* parser = ET.XMLParser(recover=True)
RecoverParse ==
    /\ pc = "recover"
    /\ "recover" \notin XMLParserKeywords
    /\ exc' = "TypeError"
    /\ pc' = "raise"
    /\ UNCHANGED << inputs, kml_data, file, position, content, root, nsi,
                    coords, seen,
                    unique_coords, di, outputs >>

\* one pass of `for ns in namespaces`
Probe ==
    /\ pc = "probe"
    /\ coords' = coords \o ProbePoints(root, namespaces[nsi])
    /\ warnings' = warnings + ProbeWarnings(root, namespaces[nsi])
    /\ IF coords' # << >> \/ nsi = Len(namespaces)
       THEN pc' = "dedup" /\ nsi' = nsi
       ELSE pc' = "probe" /\ nsi' = nsi + 1
    /\ UNCHANGED << inputs, kml_data, file, position, content, root, seen,
                    unique_coords, di, exc, kml_coords, errors >>

\* one pass of `for coord in coords`
DedupStep ==
    /\ pc = "dedup" /\ di <= Len(coords)
    /\ IF coord_tuple(coords[di]) \notin seen
       THEN /\ seen' = seen \cup {coord_tuple(coords[di])}
            /\ unique_coords' = Append(unique_coords, coords[di])
       ELSE UNCHANGED << seen, unique_coords >>
    /\ di' = di + 1
    /\ UNCHANGED << inputs, kml_data, file, position, pc, content, root, nsi,
                    coords,
                    exc, outputs >>

\* return unique_coords, stored by the handler in session_state.kml_coords
Return ==
    /\ pc = "dedup" /\ di > Len(coords)
    /\ kml_coords' = unique_coords
    /\ pc' = "done"
    /\ UNCHANGED << inputs, kml_data, file, position, locals, errors, warnings >>

\* except Exception as e: st.error(...); return []
Except ==
    /\ pc = "raise"
    /\ IF Catches(exc)
       THEN errors' = errors + 1 /\ kml_coords' = << >> /\ pc' = "done"
       ELSE errors' = errors /\ kml_coords' = kml_coords /\ pc' = "raised"
    /\ UNCHANGED << inputs, kml_data, file, position, locals, warnings >>

Next ==
    \/ ExportKML
    \/ ExportKMLBasic
    \/ UploadPicked
    \/ UploadExported
    \/ ReadDecode
    \/ StrictParse
    \/ RecoverParse
    \/ Probe
    \/ DedupStep
    \/ Return
    \/ Except

Spec == Init /\ [][Next]_vars

\* parse_kml called a second time on the same buffer object
ParseAgain ==
    /\ pc = "done" /\ call = 1
    /\ call' = 2 /\ first' = kml_coords
    /\ pc' = "read"
    /\ content' = << >> /\ root' = << >> /\ nsi' = 1 /\ coords' = << >>
    /\ seen' = {} /\ unique_coords' = << >> /\ di' = 1 /\ exc' = "none"
    /\ UNCHANGED << SIMPLEKML_AVAILABLE, waypoints, date, picked, core,
                    session, kml_data, file, position, outputs >>

NextAgain ==
    \/ Next
    \/ ParseAgain

SpecAgain == Init /\ [][NextAgain]_vars

\* ------------------------------------------------------ core function calls
kml == << SIMPLEKML_AVAILABLE, waypoints, date, picked, kml_data, file,
          position, call, first, pc, session,
          content, root, nsi, coords, seen, unique_coords, di, exc, kml_coords >>

KmlIdle ==
    /\ SIMPLEKML_AVAILABLE = FALSE /\ waypoints = << >> /\ date = DateLabel
    /\ picked = NoFile /\ kml_data = NoExport /\ file = NoFile /\ pc = "idle"
    /\ position = "start" /\ call = 1 /\ first = << >>
    /\ content = << >> /\ root = << >> /\ nsi = 1 /\ coords = << >>
    /\ seen = {} /\ unique_coords = << >> /\ di = 1 /\ exc = "none"
    /\ kml_coords = << >>
    /\ SessionIdle

\* decimal_to_dms_formatted, lines 29-40
DmsDecompose ==
    /\ op = "decimal_to_dms_formatted" /\ opc = "start"
    /\ \E d \in Decompositions(args.decimal) :
          loc' = [direction |-> Direction(args.decimal, args.is_lat),
                  raw |-> d, dms |-> d]
    /\ opc' = "carry"
    /\ UNCHANGED << kml, errors, warnings, op, args, ret >>

\* lines 43-48
DmsCarry ==
    /\ op = "decimal_to_dms_formatted" /\ opc = "carry"
    /\ loc' = [loc EXCEPT !.dms = Carry(loc.dms)]
    /\ opc' = "format"
    /\ UNCHANGED << kml, errors, warnings, op, args, ret >>

\* lines 51-66
DmsFormat ==
    /\ op = "decimal_to_dms_formatted" /\ opc = "format"
    /\ ret' = FormatDms(loc.dms, loc.direction)
    /\ opc' = "done"
    /\ UNCHANGED << kml, errors, warnings, op, args, loc >>

\* calculate_distance, lines 69-88
Distance ==
    /\ op = "calculate_distance" /\ opc = "start"
    /\ LET d == calculate_distance(args[1], args[2])
       IN  /\ ret' = [value |-> d.value]
           /\ errors' = errors + (IF d.error = "none" THEN 0 ELSE 1)
           /\ loc' = [error |-> d.error]
    /\ opc' = "done"
    /\ UNCHANGED << kml, warnings, op, args >>

\* calculate_polyline_length, line 92
PolylineStart ==
    /\ op = "calculate_polyline_length" /\ opc = "start"
    /\ loc' = [total_distance |-> 0, i |-> 1, pairs |-> << >>]
    /\ opc' = "loop"
    /\ UNCHANGED << kml, errors, warnings, op, args, ret >>

\* lines 93-96, one iteration
PolylineStep ==
    /\ op = "calculate_polyline_length" /\ opc = "loop"
    /\ loc.i <= Len(PolylineSegments(args))
    /\ LET seg == PolylineSegments(args)[loc.i]
           d == calculate_distance(args[seg[1]], args[seg[2]])
       IN  /\ loc' = [total_distance |-> loc.total_distance + d.value,
                      i |-> loc.i + 1, pairs |-> Append(loc.pairs, seg)]
           /\ errors' = errors + (IF d.error = "none" THEN 0 ELSE 1)
    /\ UNCHANGED << kml, warnings, op, args, opc, ret >>

\* line 97
PolylineReturn ==
    /\ op = "calculate_polyline_length" /\ opc = "loop"
    /\ loc.i > Len(PolylineSegments(args))
    /\ ret' = [value |-> loc.total_distance]
    /\ opc' = "done"
    /\ UNCHANGED << kml, errors, warnings, op, args, loc >>

\* calculate_polygon_area, lines 101-123: the early return, or the projected
\* area, or an exception of the libraries
PolygonArea ==
    /\ op = "calculate_polygon_area" /\ opc = "start"
    /\ IF Len(args) < 3
       THEN /\ ret' = [by |-> "short", value |-> 0]
            /\ opc' = "done" /\ loc' = [exc |-> "none"]
       ELSE \/ /\ ret' = [by |-> "projected", value |-> ProjectedArea(args)]
               /\ opc' = "done"
               /\ loc' = [exc |-> "none",
                          read |-> [k \in DOMAIN args |->
                                       TransformXY(PolygonXY(args[k]))]]
            \/ /\ \E e \in PrimaryFailures : loc' = [exc |-> e]
               /\ opc' = "except" /\ ret' = ret
    /\ UNCHANGED << kml, errors, warnings, op, args >>

\* lines 125-128
PolygonAreaExcept ==
    /\ op = "calculate_polygon_area" /\ opc = "except"
    /\ IF AreaCatches(loc.exc)
       THEN warnings' = warnings + 1 /\ opc' = "approximate"
       ELSE warnings' = warnings /\ opc' = "raised"
    /\ UNCHANGED << kml, errors, op, args, loc, ret >>

ApproximateEntered ==
    \/ op = "calculate_polygon_area_approximate" /\ opc = "start"
    \/ op = "calculate_polygon_area" /\ opc = "approximate"

\* calculate_polygon_area_approximate, lines 132-138
ApproximateStart ==
    /\ ApproximateEntered
    /\ IF Len(args) < 3
       THEN /\ ret' = [by |-> "short", value |-> 0]
            /\ opc' = "done" /\ loc' = loc
       ELSE /\ loc' = [exc |-> IF op = "calculate_polygon_area" THEN loc.exc
                               ELSE "none",
                       area |-> 0, i |-> 1, edges |-> << >>, read |-> << >>]
            /\ opc' = "ring" /\ ret' = ret
    /\ UNCHANGED << kml, errors, warnings, op, args >>

\* lines 141-150, one iteration
ApproximateStep ==
    /\ opc = "ring"
    /\ loc.i <= Len(RingEdges(args))
    /\ LET e == RingEdges(args)[loc.i]
       IN  loc' = [loc EXCEPT !.area = @ + EdgeTerm(args[e[1]], args[e[2]]),
                              !.i = @ + 1, !.edges = Append(@, e),
                              !.read = Append(@, LatLon(args[e[1]]))]
    /\ UNCHANGED << kml, errors, warnings, op, args, opc, ret >>

\* lines 153-155
ApproximateReturn ==
    /\ opc = "ring"
    /\ loc.i > Len(RingEdges(args))
    /\ ret' = [by |-> "approximate",
               value |-> IF loc.area < 0 THEN -loc.area ELSE loc.area]
    /\ opc' = "done"
    /\ UNCHANGED << kml, errors, warnings, op, args, loc >>

\* validate_coordinates, line 236
ValidateStart ==
    /\ op = "validate_coordinates" /\ opc = "start"
    /\ loc' = [valid_coords |-> << >>, i |-> 1]
    /\ opc' = "loop"
    /\ UNCHANGED << kml, errors, warnings, op, args, ret >>

\* lines 237-243, one iteration
ValidateStep ==
    /\ op = "validate_coordinates" /\ opc = "loop"
    /\ loc.i <= Len(args)
    /\ LET coord == args[loc.i]
       IN  IF Len(coord) = 2
           THEN IF ValidPair(coord[1], coord[2])
                THEN /\ loc' = [valid_coords |-> Append(loc.valid_coords, coord),
                                i |-> loc.i + 1]
                     /\ warnings' = warnings
                ELSE /\ loc' = [loc EXCEPT !.i = @ + 1]
                     /\ warnings' = warnings + 1
           ELSE /\ loc' = [loc EXCEPT !.i = @ + 1]
                /\ warnings' = warnings
    /\ UNCHANGED << kml, errors, op, args, opc, ret >>

\* line 244
ValidateReturn ==
    /\ op = "validate_coordinates" /\ opc = "loop"
    /\ loc.i > Len(args)
    /\ ret' = [value |-> loc.valid_coords]
    /\ opc' = "done"
    /\ UNCHANGED << kml, errors, warnings, op, args, loc >>

\* ensure_lat_lon_order, lines 298-307
EnsureOrder ==
    /\ op = "ensure_lat_lon_order" /\ opc = "start"
    /\ ret' = [value |-> ensure_lat_lon_order(args)]
    /\ loc' = [first |-> ensure_lat_lon_order(args)]
    /\ opc' = "done"
    /\ UNCHANGED << kml, errors, warnings, op, args >>

\* the function applied to its own result
EnsureOrderAgain ==
    /\ op = "ensure_lat_lon_order" /\ opc = "done"
    /\ ret' = [value |-> ensure_lat_lon_order(ret.value)]
    /\ opc' = "twice"
    /\ UNCHANGED << kml, errors, warnings, op, args, loc >>

InitCore ==
    /\ KmlIdle
    /\ errors = 0 /\ warnings = 0
    /\ opc = "start" /\ loc = << >> /\ ret = << >>
    /\ \/ op = "decimal_to_dms_formatted" /\ args \in DmsCalls
       \/ op = "calculate_distance" /\ args \in GeoPoints \X GeoPoints
       \/ op = "calculate_polyline_length" /\ args \in Polylines
       \/ /\ op \in {"calculate_polygon_area",
                      "calculate_polygon_area_approximate"}
          /\ args \in Polygons
       \/ op = "validate_coordinates" /\ args \in ValidateLists
       \/ op = "ensure_lat_lon_order" /\ args \in AxisCoords

NextCore ==
    \/ DmsDecompose
    \/ DmsCarry
    \/ DmsFormat
    \/ Distance
    \/ PolylineStart
    \/ PolylineStep
    \/ PolylineReturn
    \/ PolygonArea
    \/ PolygonAreaExcept
    \/ ApproximateStart
    \/ ApproximateStep
    \/ ApproximateReturn
    \/ ValidateStart
    \/ ValidateStep
    \/ ValidateReturn
    \/ EnsureOrder
    \/ EnsureOrderAgain

SpecCore == InitCore /\ [][NextCore]_vars

\* ------------------------------------------- waypoints drawn on the map
\* what the session actions below leave alone
others == << SIMPLEKML_AVAILABLE, date, picked, core, call, first, kml_data,
            file, position, pc, locals, outputs >>

Drawn(d) ==
    \E k \in DOMAIN all_drawings :
        all_drawings[k].type = d.type /\ all_drawings[k] = d

\* the operator places a marker with the drawing tool of lines 927-939
DrawMarker ==
    /\ Len(all_drawings) < MaxDrawings
    /\ \E p \in MarkerSamples :
          /\ ~Drawn(PointDrawing(p))
          /\ all_drawings' = Append(all_drawings, PointDrawing(p))
    /\ UNCHANGED << others, waypoints, processed_markers, active_polyline,
                    appended, removed >>

\* the operator draws a polyline
DrawLine ==
    /\ Len(all_drawings) < MaxDrawings
    /\ ~Drawn(LineSample)
    /\ all_drawings' = Append(all_drawings, LineSample)
    /\ UNCHANGED << others, waypoints, processed_markers, active_polyline,
                    appended, removed >>

\* the operator removes a drawing with the map's own remove tool
\* (edit_options remove, line 938); a marker drawn there again is a new one
EraseDrawing ==
    /\ \E k \in DOMAIN all_drawings :
          LET d == all_drawings[k]
              p == << d.coordinates[2], d.coordinates[1] >>
          IN  /\ all_drawings' = Pop(all_drawings, k)
              /\ IF d.type = "Point"
                 THEN /\ appended' = [appended EXCEPT ![p] = 0]
                      /\ removed' = removed \ {p}
                 ELSE UNCHANGED << appended, removed >>
    /\ UNCHANGED << others, waypoints, processed_markers, active_polyline >>

\* lines 1063-1073 and 1079: whether the loop acts on this drawing
Acts(d) ==
    \/ d.type = "LineString"
    \/ /\ d.type = "Point"
       /\ marker_id(d.coordinates[2], d.coordinates[1]) \notin processed_markers
       /\ ~exists(waypoints, d.coordinates[2], d.coordinates[1])

\* a run of the script with no button pressed, lines 1057-1086: the loop
\* stops at the first drawing it acts on, with st.rerun()
ProcessDrawings ==
    /\ LET acting == {k \in DOMAIN all_drawings : Acts(all_drawings[k])}
       IN  IF acting = {}
           THEN UNCHANGED << waypoints, session >>
           ELSE LET k == CHOOSE k \in acting : \A j \in acting : k <= j
                    d == all_drawings[k]
                    lat == d.coordinates[2]
                    lon == d.coordinates[1]
                IN  IF d.type = "Point"
                    THEN /\ appended[<< lat, lon >>] < MaxAppends
                         /\ waypoints' = Append(waypoints, Wp(lat, lon))
                         /\ processed_markers' =
                               processed_markers \cup {marker_id(lat, lon)}
                         /\ appended' =
                               [appended EXCEPT ![<< lat, lon >>] = @ + 1]
                         /\ UNCHANGED << active_polyline, all_drawings,
                                         removed >>
                    ELSE /\ active_polyline' =
                               [j \in DOMAIN d.coordinates |->
                                   << d.coordinates[j][2], d.coordinates[j][1] >>]
                         /\ UNCHANGED << waypoints, processed_markers,
                                         all_drawings, appended, removed >>
    /\ UNCHANGED others

\* the drawn markers a waypoint was created from
MarkersOf(wp) ==
    {p \in MarkerSamples :
        Drawn(PointDrawing(p)) /\ appended[p] >= 1 /\ wp = Wp(p[1], p[2])}

\* the delete button of a waypoint, lines 446-448
DeleteWaypoint ==
    /\ \E i \in DOMAIN waypoints :
          /\ waypoints' = Pop(waypoints, i)
          /\ removed' = removed \cup MarkersOf(waypoints[i])
    /\ UNCHANGED << others, processed_markers, active_polyline, all_drawings,
                    appended >>

\* Clear All Waypoints, lines 556-559
ClearAllWaypoints ==
    /\ waypoints # << >>
    /\ waypoints' = << >>
    /\ processed_markers' = {}
    /\ removed' = removed \cup UNION {MarkersOf(waypoints[i]) :
                                         i \in DOMAIN waypoints}
    /\ UNCHANGED << others, active_polyline, all_drawings, appended >>

\* Generate Waypoints with an active polyline, lines 527-534
GenerateWaypoints ==
    /\ active_polyline # NoPolyline /\ Len(active_polyline) >= 2
    /\ waypoints' = generate_waypoints_from_polyline_vertices(active_polyline)
    /\ processed_markers' = {}
    /\ UNCHANGED << others, active_polyline, all_drawings, appended, removed >>

InitSession ==
    /\ KmlIdle /\ CoreIdle
    /\ errors = 0 /\ warnings = 0

NextSession ==
    \/ DrawMarker
    \/ DrawLine
    \/ EraseDrawing
    \/ ProcessDrawings
    \/ DeleteWaypoint
    \/ ClearAllWaypoints
    \/ GenerateWaypoints

SpecSession == InitSession /\ [][NextSession]_vars

\* =============================================================== properties
\* Helpers of the properties below: what a document contains, read from the
\* tree of the uploaded file and from the lexemes of the exported text.
Done == pc = "done"
Tree(doc) == fromstring(doc).elems
WellFormed(doc) == DecodeOk(doc) /\ fromstring(doc).ok

EscapeField(f) == [f EXCEPT !.s = [c \in DOMAIN f.s |-> IF f.s[c] = AMP THEN "&amp;" ELSE f.s[c]]]
EscapeWord(w) == [f \in DOMAIN w |-> EscapeField(w[f])]
EscapeLexeme(lx) == [lx EXCEPT !.text = [w \in DOMAIN lx.text |-> EscapeWord(lx.text[w])]]
\* the same document with every raw ampersand written as an entity
Escaped(doc) == [i \in DOMAIN doc |-> EscapeLexeme(doc[i])]

\* a point with both components rounded to 6 decimal places
Rounded(p) == << Round6(p[1]), Round6(p[2]) >>

CoordElemsIn(tree, ns) ==
    {i \in 2..Len(tree) : tree[i].tag = "coordinates" /\ tree[i].ns = ns}
PointTokens(words) == {w \in DOMAIN words : TokenClass(words[w]) = "point"}
WarnTokens(words) == {w \in DOMAIN words : TokenClass(words[w]) = "warning"}
\* the in-range points (rounded) written in the coordinates elements of ns
NsTuples(tree, ns) ==
    UNION { {Rounded(TokenPoint(tree[i].text[w])) : w \in PointTokens(tree[i].text)}
            : i \in CoordElemsIn(tree, ns) }
ResultTuples == {Rounded(kml_coords[j]) : j \in DOMAIN kml_coords}
CandidateNs == << KML22, KML20, KML21, NoNs >>

\* C1: when the only malformation of the uploaded text is an unescaped
\* ampersand and it holds a coordinates element with an in-range point,
\* parse_kml recovers: it reports no error and returns the points.
C1_LenientRecovery ==
    (/\ Done /\ DecodeOk(file) /\ ~fromstring(file).ok
     /\ fromstring(Escaped(file)).ok
     /\ NsTuples(Tree(Escaped(file)), KML22) # {})
    => (errors = 0 /\ ResultTuples = NsTuples(Tree(Escaped(file)), KML22))

\* C2: a well-formed document whose coordinates elements all lie in one of
\* the candidate namespaces (2.2, 2.0, 2.1, none) yields every in-range
\* point written in them.
C2_EveryCandidateNamespace ==
    \A k \in DOMAIN CandidateNs :
        (/\ Done /\ WellFormed(file)
         /\ \A other \in DOMAIN CandidateNs :
                other # k => CoordElemsIn(Tree(file), CandidateNs[other]) = {})
        => NsTuples(Tree(file), CandidateNs[k]) \subseteq ResultTuples

\* the first candidate, in the order 2.2, 2.0, 2.1, none, whose coordinates
\* elements yield a point; 0 when none does
FirstMatch(tree) ==
    LET hits == {k \in DOMAIN CandidateNs : NsTuples(tree, CandidateNs[k]) # {}}
    IN  IF hits = {} THEN 0 ELSE CHOOSE k \in hits : \A h \in hits : k <= h

\* C3: the result holds the points of exactly one candidate, the first in
\* the order 2.2, 2.0, 2.1, none that yields a coordinate; never a union.
C3_FirstMatchWins ==
    (Done /\ WellFormed(file))
    => LET k == FirstMatch(Tree(file))
       IN  ResultTuples = IF k = 0 THEN {} ELSE NsTuples(Tree(file), CandidateNs[k])

\* C4: parse_kml never raises to its caller; a buffer that cannot be decoded
\* or parsed ends with one reported error and an empty result.
C4_NeverRaises ==
    /\ pc # "raised"
    /\ (Done /\ ~WellFormed(file)) => (errors = 1 /\ kml_coords = << >>)

C4_Witness ==
    /\ Done /\ ~WellFormed(file) /\ exc = "TypeError"
    /\ errors = 1 /\ kml_coords = << >>

\* the points of a sequence that no earlier point equals to 6 decimal places
FirstOccurrences(pts) ==
    LET keep == SelectSeq(Indices(Len(pts)),
                          LAMBDA i : \A j \in 1..(i - 1) : Rounded(pts[j]) # Rounded(pts[i]))
    IN  [k \in 1..Len(keep) |-> pts[keep[k]]]

WaypointPoints == [i \in 1..Len(waypoints) |-> << waypoints[i].lat, waypoints[i].lon >>]
Abs(x) == IF x < 0 THEN -x ELSE x
\* 1e-6 degree
Tolerance == 10 ^ (7 - Round6Digits)
Near(p, q) == Abs(p[1] - q[1]) <= Tolerance /\ Abs(p[2] - q[2]) <= Tolerance
RoundTripped == Done /\ kml_data.by = "manual" /\ file = kml_data.text /\ picked = NoFile

\* C5: parsing the text the manual serializer wrote for 1 to 26 in-range
\* waypoints, whatever the label, gives the waypoints back (latitude first,
\* within 1e-6 degree) in first-occurrence order.
C5_RoundTrip ==
    (/\ RoundTripped
     /\ Len(waypoints) >= 1 /\ Len(waypoints) <= 26
     /\ \A i \in DOMAIN waypoints : InRange(waypoints[i].lat, waypoints[i].lon))
    => LET want == FirstOccurrences(WaypointPoints)
       IN  /\ Len(kml_coords) = Len(want)
           /\ \A j \in DOMAIN want : Near(kml_coords[j], want[j])

\* C6: the returned sequence has no two points equal to 6 decimal places and
\* is the extracted sequence with only first occurrences kept, in order.
C6_Dedup ==
    (Done /\ errors = 0)
    => /\ \A i, j \in DOMAIN kml_coords :
              i < j => Rounded(kml_coords[i]) # Rounded(kml_coords[j])
       /\ kml_coords = FirstOccurrences(coords)

C6_Witness ==
    /\ Done /\ errors = 0 /\ Len(kml_coords) >= 2
    /\ \E i, j \in DOMAIN coords :
          i < j /\ coords[i] # coords[j] /\ Rounded(coords[i]) = Rounded(coords[j])

\* the coordinates elements the candidate parse_kml ended on looks up
WonElems == CoordElemsIn(root, PathNs(namespaces[nsi]))
AnyCoordElems(tree) == {i \in 2..Len(tree) : tree[i].tag = "coordinates"}
AllInRange == \A j \in DOMAIN kml_coords : InRange(kml_coords[j][1], kml_coords[j][2])
Returned == {kml_coords[j] : j \in DOMAIN kml_coords}

\* C7 (as amended): an out-of-range token is dropped with a warning and
\* processing goes on: every in-range token of the coordinates elements
\* matched by the candidate parse_kml ended on is returned, and every
\* returned point is in range.
C7_DropAndContinue ==
    (Done /\ errors = 0)
    => /\ AllInRange
       /\ \A i \in WonElems :
            /\ \A w \in PointTokens(root[i].text) :
                   Rounded(TokenPoint(root[i].text[w])) \in ResultTuples
            /\ \A w \in WarnTokens(root[i].text) :
                   /\ TokenPoint(root[i].text[w]) \notin Returned
                   /\ warnings >= 1

C7_Witness ==
    /\ Done /\ errors = 0
    /\ \E i \in WonElems :
          \E w \in WarnTokens(root[i].text) : \E v \in PointTokens(root[i].text) :
              w < v /\ TokenPoint(root[i].text[v]) \in Returned

\* C7 (as stated): every in-range token of the same document is returned.
C7_EveryTokenOfDocument ==
    (/\ Done /\ errors = 0
     /\ \E i \in AnyCoordElems(root) : WarnTokens(root[i].text) # {})
    => /\ AllInRange
       /\ \A i \in AnyCoordElems(root) :
              \A w \in PointTokens(root[i].text) :
                  Rounded(TokenPoint(root[i].text[w])) \in ResultTuples

\* ---- reading the exported text, lexeme by lexeme
OpensOf(t, tag) ==
    SelectSeq(Indices(Len(t)), LAMBDA i : t[i].k = "open" /\ t[i].tag = tag)
LastBefore(t, tag, i) ==
    LET js == {j \in 1..(i - 1) : t[j].k = "open" /\ t[j].tag = tag}
    IN  CHOOSE j \in js : \A h \in js : h <= j
\* the text of the <coordinates> child that opens right after lexeme i
CoordWords(t, i) ==
    IF i + 2 <= Len(t) /\ t[i + 1].k = "open" /\ t[i + 1].tag = "coordinates"
       /\ t[i + 2].k = "text"
    THEN t[i + 2].text ELSE << >>
NameOf(t, i) == t[LastBefore(t, "name", i) + 1].text[1][1].s
LonLat(words) == [w \in DOMAIN words |-> << Float(words[w][1]), Float(words[w][2]) >>]
UpperCase ==
    << "A", "B", "C", "D", "E", "F", "G", "H", "I", "J", "K", "L", "M",
       "N", "O", "P", "Q", "R", "S", "T", "U", "V", "W", "X", "Y", "Z" >>

\* waypoints in order, the first repeated at the end when there are more than 2
ClosedPath(wps) ==
    LET n == Len(wps)
    IN  [i \in 1..(IF n > 2 THEN n + 1 ELSE n) |->
            IF i <= n THEN << wps[i].lon, wps[i].lat >> ELSE << wps[1].lon, wps[1].lat >>]

\* C8: a flight-path LineString is emitted exactly when there are at least 2
\* waypoints; it lists the waypoints in order and, for more than 2, the first
\* waypoint once more at the end.
C8_FlightPath ==
    LET n == Len(waypoints)
        t == kml_data.text
        ls == OpensOf(t, "LineString")
    IN  /\ kml_data.by = "manual" =>
              /\ Len(ls) = (IF n >= 2 THEN 1 ELSE 0)
              /\ n >= 2 => LonLat(CoordWords(t, ls[1])) = ClosedPath(waypoints)
        /\ kml_data.by = "simplekml" =>
              /\ kml_data.hasLine = (n >= 2)
              /\ kml_data.line = (IF n >= 2 THEN ClosedPath(waypoints) ELSE << >>)

C8_Witness ==
    /\ kml_data.by = "manual" /\ Len(waypoints) = 3 /\ waypoints[1] # waypoints[3]
    /\ Len(LonLat(CoordWords(kml_data.text, OpensOf(kml_data.text, "LineString")[1]))) = 4

\* C9: the manual serializer writes one Point placemark per waypoint, in
\* order; placemark i is named WP plus the i-th capital letter (distinct names
\* up to 26 waypoints) and its coordinates read longitude, latitude, 0.
C9_PointPlacemarks ==
    kml_data.by = "manual" =>
        LET n == Len(waypoints)
            t == kml_data.text
            ps == OpensOf(t, "Point")
        IN  /\ Len(ps) = n
            /\ \A i, j \in DOMAIN ps :
                  i < j => LastBefore(t, "Placemark", ps[i]) < LastBefore(t, "Placemark", ps[j])
            /\ \A i \in DOMAIN ps :
                  /\ LastBefore(t, "Placemark", ps[i]) < LastBefore(t, "name", ps[i])
                  /\ i <= 26 => NameOf(t, ps[i]) = << "W", "P", UpperCase[i] >>
                  /\ Len(CoordWords(t, ps[i])) = 1
                  /\ LET parts == CoordWords(t, ps[i])[1]
                     IN  /\ Len(parts) = 3
                         /\ \A f \in 1..3 : FloatOk(parts[f])
                         /\ Float(parts[1]) = waypoints[i].lon
                         /\ Float(parts[2]) = waypoints[i].lat
                         /\ Float(parts[3]) = 0
            /\ n <= 26 => \A i, j \in DOMAIN ps : i # j => NameOf(t, ps[i]) # NameOf(t, ps[j])

C9_Witness ==
    /\ kml_data.by = "manual" /\ Len(waypoints) >= 26
    /\ Len(OpensOf(kml_data.text, "Point")) = Len(waypoints)

\* C10: for the same waypoints the simplekml path and the manual serializer
\* produce the same entities: the same Point placemarks (names, longitude and
\* latitude, order) and a LineString under the same condition with the same
\* coordinates.
C10_SameEntities ==
    kml_data.by = "simplekml" =>
        LET t == create_kml_manual(waypoints, date)
            ps == OpensOf(t, "Point")
            ls == OpensOf(t, "LineString")
        IN  /\ kml_data.points =
                  [i \in 1..Len(ps) |->
                      [name |-> NameOf(t, ps[i]), coords |-> LonLat(CoordWords(t, ps[i]))]]
            /\ kml_data.hasLine = (Len(ls) = 1)
            /\ Len(ls) <= 1
            /\ Len(ls) = 1 => kml_data.line = LonLat(CoordWords(t, ls[1]))

C10_Witness ==
    /\ kml_data.by = "simplekml" /\ Len(waypoints) >= 3
    /\ Len(kml_data.points) = Len(waypoints) /\ kml_data.hasLine

\* ------------------------------------------- decimal_to_dms_formatted
DmsDone == op = "decimal_to_dms_formatted" /\ opc = "done"

RECURSIVE Val(_)
Val(ds) == IF ds = << >> THEN 0
           ELSE 10 * Val(SubSeq(ds, 1, Len(ds) - 1)) + ds[Len(ds)]

\* the printed seconds field, in 1e-4 arc-second
SecondsPrinted == 10000 * Val(ret.sec_int) + Val(ret.sec_frac)

\* the seconds component of |decimal|, rounded to 4 decimal places
SecondsRounded(decimal) == ((decimal.frac % MinUnit) + 5) \div 10

\* C11: for every input the printed seconds field equals the seconds
\* component of |decimal| rounded to 4 decimal places (a rounded value of
\* 60.0000 reading 00.0000 of the next minute), also when the fractional
\* seconds round up to the next whole second.
C11_SecondsRounded ==
    DmsDone => SecondsPrinted = SecondsRounded(args.decimal) % (60 * 10000)

\* C12: printed minutes are below 60 and printed seconds below 60.0000; when
\* the raw seconds are at least 59.99995 the seconds field is 00.0000 and the
\* minutes are one more, and minutes reaching 60 become 00 with the degrees
\* one more.
C12_CarryExact ==
    DmsDone =>
        /\ Val(ret.min_str) < 60
        /\ SecondsPrinted < 60 * 10000
        /\ loc.raw.sec >= CarryAt =>
              /\ SecondsPrinted = 0
              /\ IF loc.raw.min_val + 1 = 60
                 THEN Val(ret.min_str) = 0 /\ Val(ret.deg_str) = loc.raw.deg + 1
                 ELSE /\ Val(ret.min_str) = loc.raw.min_val + 1
                      /\ Val(ret.deg_str) = loc.raw.deg

C12_Witness ==
    DmsDone /\ loc.raw.sec >= CarryAt /\ loc.raw.min_val = 59
            /\ Val(ret.min_str) = 0 /\ Val(ret.deg_str) = loc.raw.deg + 1

DmsShape(degDigits) ==
    /\ Len(ret.deg_str) = degDigits /\ Val(ret.deg_str) = loc.dms.deg
    /\ Len(ret.min_str) = 2 /\ Len(ret.sec_int) = 2 /\ Len(ret.sec_frac) = 4
    /\ \A f \in {ret.deg_str, ret.min_str, ret.sec_int, ret.sec_frac} :
          \A k \in DOMAIN f : f[k] \in 0..9
    /\ ret.direction \in (IF args.is_lat THEN {"N", "S"} ELSE {"E", "W"})
    /\ IsZero(args.decimal) => ret.direction \in {"N", "E"}
    /\ ret.direction \in {"S", "W"} <=> args.decimal.neg /\ ~IsZero(args.decimal)

DistanceDone == op = "calculate_distance" /\ opc = "done"
PolylineDone == op = "calculate_polyline_length" /\ opc = "done"
PointInRange(p) == InRange(p[1], p[2])

\* C14: distance reports an error and returns 0, without raising, whenever
\* either point is out of range; for in-range points no error is reported.
C14_ErrorIffOutOfRange ==
    DistanceDone =>
        IF PointInRange(args[1]) /\ PointInRange(args[2])
        THEN errors = 0
        ELSE errors = 1 /\ ret.value = 0

RECURSIVE ConsecutiveSum(_, _)
ConsecutiveSum(points, k) ==
    IF k < 1 THEN 0
    ELSE ConsecutiveSum(points, k - 1)
         + calculate_distance(points[k], points[k + 1]).value

\* C15: polyline_length over n points is the sum of distance over exactly
\* the n-1 consecutive pairs, never the pair last->first, and is 0 for 0 or
\* 1 points.
C15_OpenPath ==
    PolylineDone =>
        /\ ret.value = ConsecutiveSum(args, Len(args) - 1)
        /\ Len(loc.pairs) = (IF Len(args) = 0 THEN 0 ELSE Len(args) - 1)
        /\ \A k \in DOMAIN loc.pairs : loc.pairs[k] = << k, k + 1 >>
        /\ Len(args) <= 1 => ret.value = 0

C15_Witness ==
    /\ PolylineDone /\ Len(args) = 3 /\ ret.value > 0
    /\ calculate_distance(args[3], args[1]).value > 0
    /\ \A k \in 1..2 : calculate_distance(args[k], args[k + 1]).value > 0

\* ------------------------------------------------------ polygon area
\* the approximate method has returned, called directly or as the fallback
ApproximateDone ==
    /\ opc = "done"
    /\ \/ op = "calculate_polygon_area_approximate"
       \/ op = "calculate_polygon_area" /\ loc.exc # "none"

RECURSIVE WrappedSum(_, _)
WrappedSum(points, k) ==
    IF k < 1 THEN 0
    ELSE WrappedSum(points, k - 1)
         + EdgeTerm(points[k], points[(k % Len(points)) + 1])

\* C16: the fallback area over n >= 3 points accumulates exactly n edge
\* terms, one per pair (i, (i+1) mod n), the closing edge last->first
\* included; fewer than 3 points return 0.
C16_ClosedRing ==
    ApproximateDone =>
        IF Len(args) < 3 THEN ret.value = 0
        ELSE /\ Len(loc.edges) = Len(args)
             /\ \A k \in DOMAIN loc.edges :
                   loc.edges[k] = << k, (k % Len(args)) + 1 >>
             /\ loc.edges[Len(args)] = << Len(args), 1 >>
             /\ ret.value = Abs(WrappedSum(args, Len(args)))

C16_Witness ==
    /\ ApproximateDone /\ Len(args) >= 3 /\ ret.value > 0
    /\ EdgeTerm(args[Len(args)], args[1]) # 0

\* C17: whenever the primary area computation fails on 3 or more points,
\* polygon_area does not raise: it reports a warning and returns the result
\* of the fallback method for the same points.
C17_DegradesToFallback ==
    op = "calculate_polygon_area" =>
        /\ opc # "raised"
        /\ opc = "done" /\ loc.exc # "none" =>
              /\ Len(args) >= 3
              /\ warnings = 1
              /\ ret = [by |-> "approximate",
                        value |-> Abs(WrappedSum(args, Len(args)))]

C17_Witness ==
    /\ op = "calculate_polygon_area" /\ opc = "done"
    /\ loc.exc = "CRSError" /\ warnings = 1 /\ ret.value > 0

\* ------------------------------- validate_coordinates, ensure_lat_lon_order
IsPoint(c) == Len(c) = 2
KeptPoint(c) == IsPoint(c) /\ PointInRange(c)
DroppedPoint(c) == IsPoint(c) /\ ~PointInRange(c)

\* C18: validate(points) returns the order-preserving subsequence of exactly
\* the points that satisfy the range invariant, and reports every dropped
\* point with a warning.
C18_FilterInOrder ==
    op = "validate_coordinates" /\ opc = "done" =>
        /\ ret.value = SelectSeq(args, KeptPoint)
        /\ warnings = Len(SelectSeq(args, DroppedPoint))

C18_Witness ==
    /\ op = "validate_coordinates" /\ opc = "done" /\ Len(args) = 3
    /\ DroppedPoint(args[2]) /\ args[1] # args[3]
    /\ ret.value = << args[1], args[3] >> /\ warnings = 1

InLat(v) == -LatLimit * UnitsPerDegree <= v /\ v <= LatLimit * UnitsPerDegree
InLon(v) == -LonLimit * UnitsPerDegree <= v /\ v <= LonLimit * UnitsPerDegree

\* C19: normalize_axis_order returns the point unchanged when its first
\* component is in [-90,90] and its second in [-180,180], ambiguous points
\* included; otherwise swapped when the first is in [-180,180] and the second
\* in [-90,90]; otherwise unchanged; applying it twice gives what applying
\* it once gives.
C19_AxisOrder ==
    op = "ensure_lat_lon_order" /\ IsPoint(args) =>
        /\ opc \in {"done", "twice"} =>
              loc.first = IF InLat(args[1]) /\ InLon(args[2]) THEN args
                          ELSE IF InLon(args[1]) /\ InLat(args[2])
                               THEN << args[2], args[1] >>
                               ELSE args
        /\ opc = "twice" => ret.value = loc.first

C19_Witness ==
    /\ op = "ensure_lat_lon_order" /\ opc = "twice" /\ IsPoint(args)
    /\ ret.value = << args[2], args[1] >> /\ args[1] # args[2]

\* ------------------------------------------------------------ repeated call
\* C20: every core call is idempotent given the same input: parse_kml called
\* a second time with the same KML byte buffer object returns a result equal
\* to the first call's.
C20_SameBufferSameResult ==
    pc = "done" /\ call = 2 => kml_coords = first

\* --------------------------------------------- the two area methods
ProjectedDone ==
    op = "calculate_polygon_area" /\ opc = "done" /\ ret.by = "projected"

\* the projected area of the ring with the first component taken as the
\* latitude (north-south) and the second as the longitude (east-west)
LatFirstArea(coordinates) ==
    LET ring == [k \in DOMAIN coordinates |->
                    << MercatorX(coordinates[k][2]),
                       MercatorY(coordinates[k][1]) >>]
        sum == Shoelace(ring, Len(ring))
    IN  Abs(sum) \div 2000

\* C21: the primary (projected) method and the fallback method read every
\* input point the same way, as (latitude, longitude): the first component
\* is the north-south coordinate and the second the east-west coordinate in
\* both.
C21_SameAxes ==
    /\ ApproximateDone /\ Len(args) >= 3 =>
          \A k \in DOMAIN args :
              loc.read[k] = [lat |-> args[k][1], lon |-> args[k][2]]
    /\ ProjectedDone =>
          /\ \A k \in DOMAIN args :
                loc.read[k] = [lat |-> args[k][1], lon |-> args[k][2]]
          /\ ret.value = LatFirstArea(args)

\* ------------------------------------ a path with an out-of-range point
\* the great-circle distance of two in-range samples, in decimetres; half
\* the circumference, pi * R, for the antipodal pair
GreatCircle(p, q) ==
    IF << p, q >> \in SqrtDomainError THEN 200150868
    ELSE HaversineDm[GeoIndex(p)][GeoIndex(q)]

SegmentInRange(points, k) ==
    PointInRange(points[k]) /\ PointInRange(points[k + 1])

RECURSIVE InRangeSum(_, _)
InRangeSum(points, k) ==
    IF k < 1 THEN 0
    ELSE InRangeSum(points, k - 1)
         + (IF SegmentInRange(points, k)
            THEN GreatCircle(points[k], points[k + 1]) ELSE 0)

\* C22: polyline_length over a sequence that contains an out-of-range point
\* does not raise and does not return 0 for the whole path: each segment
\* with an out-of-range endpoint contributes 0, with one error report per
\* such segment, and every segment with two in-range endpoints contributes
\* its full distance.
C22_PerSegmentErrors ==
    /\ op = "calculate_polyline_length" => opc # "raised"
    /\ (PolylineDone /\ \E k \in DOMAIN args : ~PointInRange(args[k])) =>
          /\ ret.value = InRangeSum(args, Len(args) - 1)
          /\ errors = Cardinality({k \in 1..(Len(args) - 1) :
                                      ~SegmentInRange(args, k)})

\* ------------------------------------------------- drawn waypoints
\* C23: once the operator has removed a drawn waypoint, by its delete button
\* or by Clear All Waypoints, a marker the map still reports never
\* re-creates that waypoint on a later rerun; a drawn marker is appended to
\* the waypoint list at most once.
C23_NeverRecreated ==
    [][\A p \in MarkerSamples :
          /\ (p \in removed /\ Drawn(PointDrawing(p)) /\ Drawn(PointDrawing(p))')
                => appended'[p] = appended[p]
          /\ appended'[p] <= 1]_vars

====
